---- MODULE Spec2Model ----
(***************************************************************************)
(* The socket controller of amp-client (store/models/socketController):    *)
(* openConnection with its lifecycle callback, reconnect timer and         *)
(* teardown handle, the channel router, the order lifecycle handlers, the  *)
(* REQUEST_SIGNATURE protocol and the order-book / trades / OHLCV          *)
(* synchronizers.                                                          *)
(*                                                                         *)
(* Every action is one run of one JavaScript callback up to its next       *)
(* await (or to its end).  fx is the list of effects that run performed,   *)
(* in program order; last is the input that triggered it.                  *)
(***************************************************************************)
EXTENDS Integers, Sequences, FiniteSets, TLC

\* Connections the model lets be created (by the application or by timers).
MaxConns == 3

\* The delay handed to setTimeout by handleWebsocketCloseMessage.
ReconnectDelay == 5000

VARIABLES
  nconn,      \* number of socket.createConnection() calls so far
  conn,       \* conn[g]: transport state of the g-th connection
  origin,     \* origin[g]: 0 if the application opened g, else the connection whose close timer opened it
  timers,     \* pending setTimeout callbacks, named by the connection whose close scheduled them
  appHandle,  \* the connection whose teardown handle the application holds (0: none)
  tornDown,   \* connections whose teardown handle has been invoked
  dangling,   \* timers that were pending when a teardown handle was invoked (history)
  storeOpen,  \* the store's connection flag (actionCreators.createConnection / closeConnection)
  orders,     \* the order table of the store
  trades,     \* the trade table of the store
  orderBook,  \* the order book of the store
  ohlcv,      \* the candle series of the store
  task,       \* the async handler suspended at an await, if any
  pending,    \* the other suspended async handlers, while task is the one to go on next
  arrivals,   \* the events delivered so far, in delivery order (history)
  effects,    \* the table updates and sends made so far, each with its event (history)
  last,       \* the input of the last step
  fx          \* the effects of the last step, in program order

connVars == <<nconn, conn, origin, timers, appHandle, tornDown, dangling, storeOpen>>
tableVars == <<orders, trades, orderBook, ohlcv>>
histVars == <<pending, arrivals, effects>>
vars == <<connVars, tableVars, task, histVars, last, fx>>

Conns == 1..MaxConns

Notify(level, message) == [op |-> "notify", level |-> level, message |-> message]

\* socket.createConnection, dispatch(createConnection()), socket.openConnection(cb),
\* socket.onMessage(router): the body of the openConnection thunk.
OpenConnectionFx ==
  << [op |-> "socket.createConnection"],
     [op |-> "dispatch", action |-> "createConnection"],
     [op |-> "socket.openConnection"],
     [op |-> "socket.onMessage"] >>

OpenConnection(src) ==
  /\ nconn < MaxConns
  /\ nconn' = nconn + 1
  /\ conn' = [conn EXCEPT ![nconn + 1] = "connecting"]
  /\ origin' = [origin EXCEPT ![nconn + 1] = src]
  /\ storeOpen' = TRUE
  /\ fx' = OpenConnectionFx

\* The effects of handleWebsocketCloseMessage, in program order.
CloseMessageFx ==
  << Notify("danger", "Connection lost"),
     [op |-> "setTimeout", delay |-> ReconnectDelay] >>

\* A close handler that emits the notice and schedules nothing.
HandleWebsocketCloseMessage_NoTimer(g) ==
  /\ timers' = timers
  /\ fx' = << Notify("danger", "Connection lost") >>

\* handleWebsocketCloseMessage: the notice, then setTimeout(() => dispatch(openConnection()), 5000).
HandleWebsocketCloseMessage(g) ==
  /\ timers' = timers \cup {g}
  /\ fx' = CloseMessageFx

\* An error handler that takes the reconnecting path as the close handler does.
HandleWebsocketErrorMessage_Reconnects(g) ==
  /\ timers' = timers \cup {g}
  /\ fx' = << [op |-> "log"] >> \o CloseMessageFx

\* handleWebsocketErrorMessage: console.log only.
HandleWebsocketErrorMessage(g) ==
  /\ timers' = timers
  /\ fx' = << [op |-> "log"] >>

\* What the returned teardown closure does to the reconnect timers: nothing
\* (it calls closeConnection() and dispatches closeConnection(), no clearTimeout).
TeardownTimers == timers

----------------------------------------------------------------------------
\* The application dispatches openConnection() and keeps the returned handle.
\* It does so only while it holds no handle (it tears down before it reopens).
AppOpenConnection ==
  /\ appHandle = 0
  /\ nconn + Cardinality(timers) < MaxConns
  /\ OpenConnection(0)
  /\ appHandle' = nconn + 1
  /\ last' = [kind |-> "call", name |-> "openConnection"]
  /\ UNCHANGED <<timers, tornDown, dangling, tableVars, task, histVars>>

\* The application invokes the teardown handle: closeConnection() on the
\* connection the handle belongs to, then dispatch(closeConnection()).
Teardown ==
  /\ appHandle # 0
  /\ conn' = [conn EXCEPT ![appHandle] =
                IF @ \in {"connecting", "open"} THEN "closing" ELSE @]
  /\ storeOpen' = FALSE
  /\ tornDown' = tornDown \cup {appHandle}
  /\ timers' = TeardownTimers
  /\ dangling' = dangling \cup timers
  /\ appHandle' = 0
  /\ last' = [kind |-> "call", name |-> "teardown"]
  /\ fx' = << [op |-> "socket.closeConnection"],
              [op |-> "dispatch", action |-> "closeConnection"] >>
  /\ UNCHANGED <<nconn, origin, tableVars, task, histVars>>

\* The transport reports 'open' to the lifecycle callback.
LifecycleOpen(g) ==
  /\ conn[g] = "connecting"
  /\ conn' = [conn EXCEPT ![g] = "open"]
  /\ last' = [kind |-> "lifecycle", type |-> "open", conn |-> g]
  /\ fx' = << Notify("success", "Reconnected") >>
  /\ UNCHANGED <<nconn, origin, timers, appHandle, tornDown, dangling, storeOpen, tableVars, task, histVars>>

\* The transport reports 'error' to the lifecycle callback.
LifecycleError(g) ==
  /\ conn[g] \in {"connecting", "open"}
  /\ HandleWebsocketErrorMessage(g)
  /\ last' = [kind |-> "lifecycle", type |-> "error", conn |-> g]
  /\ UNCHANGED <<nconn, conn, origin, appHandle, tornDown, dangling, storeOpen, tableVars, task, histVars>>

\* The transport reports 'close' to the lifecycle callback (once per connection).
\* The guard on the count keeps every scheduled timer able to fire within MaxConns.
LifecycleClose(g) ==
  /\ conn[g] \in {"connecting", "open", "closing"}
  /\ nconn + Cardinality(timers) < MaxConns
  /\ conn' = [conn EXCEPT ![g] = "closed"]
  /\ HandleWebsocketCloseMessage(g)
  /\ last' = [kind |-> "lifecycle", type |-> "close", conn |-> g]
  /\ UNCHANGED <<nconn, origin, appHandle, tornDown, dangling, storeOpen, tableVars, task, histVars>>

\* The timer set by handleWebsocketCloseMessage fires: dispatch(openConnection()).
\* The handle that dispatch returns is dropped.
TimerFire(g) ==
  /\ g \in timers
  /\ timers' = timers \ {g}
  /\ dangling' = dangling \ {g}
  /\ OpenConnection(g)
  /\ last' = [kind |-> "timer", src |-> g]
  /\ UNCHANGED <<appHandle, tornDown, tableVars, task, histVars>>

----------------------------------------------------------------------------
(***************************************************************************)
(* Wire data.  A value that is missing on the wire (undefined) is Absent.  *)
(***************************************************************************)

\* Longest matches list of an event.
MaxMatches == 2

Absent == [t |-> "absent"]

\* No async handler is suspended.
Idle == [pc |-> "idle"]

SeqsUpTo(S, n) == UNION {[1..k -> S] : k \in 0..n}

\* Addresses: an account in one of two letter-casings, or not an address.
LocalChecksum == [acct |-> 1, form |-> "checksum"]
LocalLower == [acct |-> 1, form |-> "lower"]
OtherChecksum == [acct |-> 2, form |-> "checksum"]
InvalidAddress == [acct |-> 0, form |-> "invalid"]

Ok(v) == [ok |-> TRUE, value |-> v, error |-> ""]
Fail(e) == [ok |-> FALSE, value |-> Absent, error |-> e]

\* ethers' utils.getAddress: the checksum form of a valid address, throws otherwise.
GetAddress(a) ==
  IF a.form = "invalid" THEN Fail("invalid address")
  ELSE Ok([acct |-> a.acct, form |-> "checksum"])

\* What signer.getAddress() may resolve to.
SignerAddresses == {LocalChecksum, LocalLower}

RawOrder(id, owner, status, wellFormed) ==
  [t |-> "order", id |-> id, userAddress |-> owner, status |-> status,
   wellFormed |-> wellFormed]

O1 == RawOrder(1, LocalChecksum, "OPEN", TRUE)
O1x == RawOrder(1, LocalLower, "FILLED", TRUE)
O2 == RawOrder(2, OtherChecksum, "OPEN", TRUE)
OBad == RawOrder(2, LocalChecksum, "OPEN", FALSE)
OBadAddr == RawOrder(2, InvalidAddress, "OPEN", TRUE)

RawTrade(id, maker, taker, wellFormed) ==
  [t |-> "trade", id |-> id, maker |-> maker, taker |-> taker,
   wellFormed |-> wellFormed]

T1 == RawTrade(1, LocalChecksum, OtherChecksum, TRUE)
T2 == RawTrade(2, OtherChecksum, OtherChecksum, TRUE)
T3 == RawTrade(3, OtherChecksum, LocalLower, TRUE)
TBad == RawTrade(2, LocalChecksum, OtherChecksum, FALSE)

\* parseOrder: the table row of a wire order; throws on a malformed one.
ParseOrder(o) ==
  IF o.t = "order" /\ o.wellFormed
    THEN Ok([kind |-> "order", hash |-> o.id, status |-> o.status])
    ELSE Fail("malformed order")

\* parseTrade: the table row of a wire trade; throws on a malformed one.
ParseTrade(x) ==
  IF x.t = "trade" /\ x.wellFormed
    THEN Ok([kind |-> "trade", hash |-> x.id])
    ELSE Fail("malformed trade")

\* The store's table reducers: upsert by hash.
UpsertOne(table, row) ==
  IF \E i \in DOMAIN table : table[i].hash = row.hash
    THEN [i \in DOMAIN table |-> IF table[i].hash = row.hash THEN row ELSE table[i]]
    ELSE Append(table, row)

RECURSIVE UpsertAll(_, _)
UpsertAll(table, batch) ==
  IF batch = << >> THEN table
  ELSE UpsertAll(UpsertOne(table, Head(batch)), Tail(batch))

UpdateOrdersTable(table, batch) == UpsertAll(table, batch)
UpdateTradesTable(table, batch) == UpsertAll(table, batch)

Connected == \E g \in Conns : conn[g] = "open"

\* last and fx describe one callback's run.  Between two callbacks of the
\* message specifications the event loop is idle and they are cleared: no
\* handler reads them, so the program's states and steps are the same with or
\* without this, and every run's description is still seen in the state it
\* produces.
Quiet == last.kind = "quiet"

Settle ==
  /\ ~Quiet
  /\ last' = [kind |-> "quiet"]
  /\ fx' = << >>
  /\ UNCHANGED <<connVars, tableVars, task, histVars>>

(***************************************************************************)
(* ORDER_ADDED, ORDER_CANCELLED, ERROR                                     *)
(***************************************************************************)

\* A handler that appends the row instead of dispatching the upsert.
OrderUpserted_Append(table, row) == Append(table, row)

\* The order table after handleOrderAdded / handleOrderCancelled dispatch
\* updateOrdersTable([order]).
OrderUpserted(table, row) == UpdateOrdersTable(table, << row >>)

\* handleOrderAdded and handleOrderCancelled, which differ in the notice.
HandleOrderParsed(event, message) ==
  LET p == ParseOrder(event.payload) IN
  /\ task' = task
  /\ UNCHANGED <<trades, orderBook, ohlcv>>
  /\ IF p.ok
       THEN /\ orders' = OrderUpserted(orders, p.value)
            /\ fx' = << [op |-> "parseOrder"],
                        Notify("success", message),
                        [op |-> "updateOrdersTable", batch |-> << p.value >>] >>
       ELSE /\ orders' = orders
            /\ fx' = << [op |-> "parseOrder"], [op |-> "log"],
                        Notify("danger", p.error) >>

\* handleOrderAdded with the notice of handleOrderCancelled.
HandleOrderAdded_WrongNotice(event) == HandleOrderParsed(event, "Order cancelled")

HandleOrderAdded(event) == HandleOrderParsed(event, "Order added")

HandleOrderCancelled(event) == HandleOrderParsed(event, "Order cancelled")

\* handleOrderError: a danger notice with the payload; no table is touched.
HandleOrderError(event) ==
  /\ fx' = << Notify("danger", "Error: payload") >>
  /\ UNCHANGED <<tableVars, task>>

(***************************************************************************)
(* ORDER_SUCCESS, ORDER_PENDING                                            *)
(***************************************************************************)

\* The matches of ORDER_SUCCESS / ORDER_PENDING events.
Matches ==
  { [order |-> O1, trade |-> T1],        \* order and trade of the local user
    [order |-> O2, trade |-> T2],        \* neither
    [order |-> O2, trade |-> T3],        \* the trade only (taker, lower-case)
    [order |-> O1x, trade |-> TBad],     \* a trade the parser rejects
    [order |-> O1, trade |-> Absent],    \* match.trade missing
    [order |-> OBadAddr, trade |-> T1] } \* an owner that is no address

\* Whether the order test of the forEach body holds: utils.getAddress(order.userAddress) === signerAddress.
OwnsOrder(order, signerAddress) == GetAddress(order.userAddress).value = signerAddress

\* Whether the trade test holds, given both addresses normalise.
OwnsTrade(trade, signerAddress) ==
  \/ GetAddress(trade.maker).value = signerAddress
  \/ GetAddress(trade.taker).value = signerAddress

\* One run of the forEach body on acc = [ok, orders, trades, error].
MatchStep(acc, match, signerAddress) ==
  LET order == match.order
      trade == match.trade
      failed(e) == [ok |-> FALSE, orders |-> acc.orders, trades |-> acc.trades, error |-> e]
  IN
  IF ~acc.ok THEN acc
  ELSE IF order.t = "absent" THEN failed("TypeError")
  ELSE IF ~GetAddress(order.userAddress).ok THEN failed("invalid address")
  ELSE IF OwnsOrder(order, signerAddress) /\ ~ParseOrder(order).ok
    THEN failed(ParseOrder(order).error)
  ELSE
    LET orders1 == IF OwnsOrder(order, signerAddress)
                     THEN Append(acc.orders, ParseOrder(order).value)
                     ELSE acc.orders
        failed1(e) == [ok |-> FALSE, orders |-> orders1, trades |-> acc.trades, error |-> e]
    IN
    IF trade.t = "absent" THEN failed1("TypeError")
    ELSE IF ~GetAddress(trade.maker).ok THEN failed1("invalid address")
    ELSE IF GetAddress(trade.maker).value # signerAddress /\ ~GetAddress(trade.taker).ok
      THEN failed1("invalid address")
    ELSE IF OwnsTrade(trade, signerAddress) /\ ~ParseTrade(trade).ok
      THEN failed1(ParseTrade(trade).error)
    ELSE [ok |-> TRUE,
          orders |-> orders1,
          trades |-> IF OwnsTrade(trade, signerAddress)
                       THEN Append(acc.trades, ParseTrade(trade).value)
                       ELSE acc.trades,
          error |-> ""]

\* matches.forEach(...) from empty batches.
RECURSIVE ForEachMatch(_, _, _)
ForEachMatch(acc, matches, signerAddress) ==
  IF matches = << >> THEN acc
  ELSE ForEachMatch(MatchStep(acc, Head(matches), signerAddress), Tail(matches), signerAddress)

Batches(matches, signerAddress) ==
  ForEachMatch([ok |-> TRUE, orders |-> << >>, trades |-> << >>, error |-> ""],
               matches, signerAddress)

\* Dispatches made inside the loop: one table update per row.
BatchFx_PerRow(b) ==
  [i \in DOMAIN b.orders |-> [op |-> "updateOrdersTable", batch |-> << b.orders[i] >>]]
  \o [i \in DOMAIN b.trades |-> [op |-> "updateTradesTable", batch |-> << b.trades[i] >>]]

\* The dispatches after the loop: one table update per non-empty batch.
BatchFx(b) ==
  (IF Len(b.orders) > 0 THEN << [op |-> "updateOrdersTable", batch |-> b.orders] >> ELSE << >>)
  \o (IF Len(b.trades) > 0 THEN << [op |-> "updateTradesTable", batch |-> b.trades] >> ELSE << >>)

\* handleOrderSuccess / handleOrderPending up to `await signer.getAddress()`.
HandleOrderMatches(event) ==
  /\ task = Idle
  /\ task' = [pc |-> "getAddress", ev |-> event]
  /\ fx' = << [op |-> "signer.getAddress"] >>
  /\ UNCHANGED tableVars

HandleOrderSuccess(event) == HandleOrderMatches(event)

HandleOrderPending(event) == HandleOrderMatches(event)

\* handleOrderSuccess / handleOrderPending after the await: res is the
\* outcome of signer.getAddress().
ResumeOrderMatches(res) ==
  LET ev == task.ev
      message == IF ev.type = "ORDER_SUCCESS" THEN "Order success" ELSE "Order pending"
      caught(e) == /\ fx' = << [op |-> "log"], Notify("danger", e) >>
                   /\ UNCHANGED tableVars
  IN
  /\ task.pc = "getAddress"
  /\ task' = Idle
  /\ IF ~res.ok THEN caught(res.error)
     ELSE IF ev.payload.t = "absent" THEN caught("TypeError")
     ELSE IF ev.payload.matches.t = "absent" THEN caught("TypeError")
     ELSE LET b == Batches(ev.payload.matches.items, res.value) IN
       IF ~b.ok THEN caught(b.error)
       ELSE /\ orders' = IF Len(b.orders) > 0 THEN UpdateOrdersTable(orders, b.orders) ELSE orders
            /\ trades' = IF Len(b.trades) > 0 THEN UpdateTradesTable(trades, b.trades) ELSE trades
            /\ fx' = BatchFx(b) \o << Notify("success", message) >>
            /\ UNCHANGED <<orderBook, ohlcv>>

(***************************************************************************)
(* REQUEST_SIGNATURE                                                       *)
(***************************************************************************)

List(s) == [t |-> "list", items |-> s]

\* A wire order or trade as the object the handler holds: nonce tells whether
\* a nonce was assigned to it, signed whether it carries a signature.
Signable(raw) == [t |-> "signable", raw |-> raw, nonce |-> FALSE, signed |-> FALSE]

\* x.nonce = getRandomNonce() / trade.tradeNonce = getRandomNonce()
WithNonce(x) == [x EXCEPT !.nonce = TRUE]

\* signer.signOrder / signer.signTrade: the signed structure they resolve to.
SignOrder(x) == [x EXCEPT !.signed = TRUE]
SignTrade(x) == [x EXCEPT !.signed = TRUE]

\* The object the handler still holds after `await signer.signOrder(remainingOrder)`
\* and after `await Promise.all(promises)`: the awaited values are dropped, so it
\* is the argument, signed only if the signer wrote the signature into it.
HeldOrder(x, inPlace) == IF inPlace THEN SignOrder(x) ELSE x
HeldTrade(x, inPlace) == IF inPlace THEN SignTrade(x) ELSE x

\* The remainingOrder variable once line 213 has completed.
RemainingHeld(ev, inPlace) ==
  IF ev.payload.remainingOrder.t = "absent" THEN Absent
  ELSE HeldOrder(WithNonce(Signable(ev.payload.remainingOrder)), inPlace)

\* The matches variable once line 221 has completed.
MatchesHeld(ev, inPlace) ==
  IF ev.payload.matches.t = "absent" THEN Absent
  ELSE List([i \in DOMAIN ev.payload.matches.items |->
               [order |-> ev.payload.matches.items[i].order,
                trade |-> HeldTrade(WithNonce(Signable(ev.payload.matches.items[i].trade)),
                                    inPlace)]])

\* A send whose hash is kept in a variable shared by the handlers, which holds
\* the hash of the REQUEST_SIGNATURE event delivered last.
SubmitFx_SharedHash(ev, inPlace) ==
  LET rs == {i \in DOMAIN arrivals : arrivals[i].type = "REQUEST_SIGNATURE"}
      hash == IF rs = {} THEN ev.hash
              ELSE arrivals[CHOOSE i \in rs : \A j \in rs : j <= i].hash
  IN
  << Notify("success", "Signing trade"),
     [op |-> "send", hash |-> hash, order |-> ev.payload.order,
      remainingOrder |-> RemainingHeld(ev, inPlace),
      matches |-> MatchesHeld(ev, inPlace)] >>

\* Lines 224-225: the notice, then socket.sendNewSubmitSignatureMessage.
SubmitFx(ev, inPlace) ==
  << Notify("success", "Signing trade"),
     [op |-> "send", hash |-> ev.hash, order |-> ev.payload.order,
      remainingOrder |-> RemainingHeld(ev, inPlace),
      matches |-> MatchesHeld(ev, inPlace)] >>

\* The catch block of handleRequestSignature.
SignatureCaughtFx(e) == << Notify("danger", e), [op |-> "log"] >>

\* Line 218: a trade nonce for every match in turn, up to the first match that
\* has no trade (where the assignment throws).
TradeNonceFx(items) ==
  LET bad == {i \in DOMAIN items : items[i].trade.t = "absent"}
      n == IF bad = {} THEN Len(items) ELSE (CHOOSE i \in bad : \A j \in bad : i <= j) - 1
  IN [i \in 1..n |-> [op |-> "tradeNonce", trade |-> items[i].trade.id]]

\* Line 219: one signTrade call per match.
SignTradeFx(items) ==
  [i \in DOMAIN items |-> [op |-> "signTrade", trade |-> items[i].trade.id]]

\* Lines 217-225 without the await of the join: the send follows the signTrade
\* calls at once.
SignMatches_NoJoin(ev, inPlace) ==
  LET ms == ev.payload.matches IN
  IF ms.t # "absent" /\ \E i \in DOMAIN ms.items : ms.items[i].trade.t = "absent"
    THEN [fx |-> TradeNonceFx(ms.items) \o SignatureCaughtFx("TypeError"), next |-> "done"]
  ELSE [fx |-> (IF ms.t = "absent" THEN << >>
                ELSE TradeNonceFx(ms.items) \o SignTradeFx(ms.items))
               \o SubmitFx(ev, inPlace),
        next |-> "done"]

\* Lines 217-225 from `if (matches)`: [fx, next], next being where the handler is
\* afterwards.  An empty list has nothing to wait for.
SignMatches(ev, inPlace) ==
  LET ms == ev.payload.matches IN
  IF ms.t = "absent" THEN [fx |-> SubmitFx(ev, inPlace), next |-> "done"]
  ELSE IF \E i \in DOMAIN ms.items : ms.items[i].trade.t = "absent"
    THEN [fx |-> TradeNonceFx(ms.items) \o SignatureCaughtFx("TypeError"), next |-> "done"]
  ELSE IF ms.items = << >> THEN [fx |-> SubmitFx(ev, inPlace), next |-> "done"]
  ELSE [fx |-> TradeNonceFx(ms.items) \o SignTradeFx(ms.items), next |-> "signTrades"]

\* Lines 205-208: [ok, orders, fx].
UpsertSentOrder(ev, table) ==
  IF ev.payload.order.t = "absent" THEN [ok |-> TRUE, orders |-> table, fx |-> << >>]
  ELSE IF ~ParseOrder(ev.payload.order).ok
    THEN [ok |-> FALSE, orders |-> table,
          fx |-> << [op |-> "parseOrder"] >>
                 \o SignatureCaughtFx(ParseOrder(ev.payload.order).error)]
  ELSE [ok |-> TRUE,
        orders |-> UpdateOrdersTable(table, << ParseOrder(ev.payload.order).value >>),
        fx |-> << [op |-> "parseOrder"],
                  [op |-> "updateOrdersTable",
                   batch |-> << ParseOrder(ev.payload.order).value >>] >>]

\* handleRequestSignature up to its first await (or to its end).  inPlace is
\* whether the signer got from getSigner() writes the signature into its argument.
\* Like the other async handlers it is started only while none is suspended.
HandleRequestSignatureWith(ev, inPlace) ==
  /\ task = Idle
  /\ UNCHANGED <<trades, orderBook, ohlcv>>
  /\ IF ev.payload.t = "absent"
       THEN /\ fx' = SignatureCaughtFx("TypeError")
            /\ UNCHANGED <<orders, task>>
     ELSE LET u == UpsertSentOrder(ev, orders)
              m == SignMatches(ev, inPlace)
          IN
          /\ orders' = u.orders
          /\ IF ~u.ok
               THEN fx' = u.fx /\ task' = task
             ELSE IF ev.payload.remainingOrder.t # "absent"
               THEN /\ task' = [pc |-> "signOrder", ev |-> ev, inPlace |-> inPlace]
                    /\ fx' = u.fx \o << [op |-> "getRandomNonce"], [op |-> "signOrder"] >>
             ELSE IF m.next = "signTrades"
               THEN /\ task' = [pc |-> "signTrades", ev |-> ev, inPlace |-> inPlace]
                    /\ fx' = u.fx \o m.fx
             ELSE fx' = u.fx \o m.fx /\ task' = task

HandleRequestSignature(ev) == \E inPlace \in BOOLEAN : HandleRequestSignatureWith(ev, inPlace)

\* A continuation that goes on to the trades whether or not signOrder resolved.
ResumeSignOrder_GoesOn(signedOk) ==
  LET m == SignMatches(task.ev, task.inPlace) IN
  /\ task.pc = "signOrder"
  /\ UNCHANGED tableVars
  /\ fx' = m.fx
  /\ task' = IF m.next = "signTrades" THEN [task EXCEPT !.pc = "signTrades"] ELSE Idle

\* After `await signer.signOrder(remainingOrder)`: signedOk is whether it resolved.
ResumeSignOrder(signedOk) ==
  LET ev == task.ev
      m == SignMatches(ev, task.inPlace)
  IN
  /\ task.pc = "signOrder"
  /\ UNCHANGED tableVars
  /\ IF ~signedOk
       THEN fx' = SignatureCaughtFx("signature failed") /\ task' = Idle
     ELSE /\ fx' = m.fx
          /\ task' = IF m.next = "signTrades" THEN [task EXCEPT !.pc = "signTrades"] ELSE Idle

\* A join that goes on as soon as one signTrade has resolved.
ResumeSignTrades_AnyOk(signedOk) ==
  /\ task.pc = "signTrades"
  /\ task' = Idle
  /\ UNCHANGED tableVars
  /\ fx' = IF \E i \in DOMAIN signedOk : signedOk[i]
             THEN SubmitFx(task.ev, task.inPlace)
             ELSE SignatureCaughtFx("signature failed")

\* A join after which the order of the event is upserted (again) before the send.
ResumeSignTrades_LateUpsert(signedOk) ==
  LET u == UpsertSentOrder(task.ev, orders) IN
  /\ task.pc = "signTrades"
  /\ task' = Idle
  /\ orders' = u.orders
  /\ UNCHANGED <<trades, orderBook, ohlcv>>
  /\ fx' = IF \A i \in DOMAIN signedOk : signedOk[i]
             THEN u.fx \o SubmitFx(task.ev, task.inPlace)
             ELSE SignatureCaughtFx("signature failed")

\* After `await Promise.all(promises)`: signedOk[i] is whether the i-th signTrade
\* resolved; Promise.all rejects as soon as one of them rejects.
ResumeSignTrades(signedOk) ==
  /\ task.pc = "signTrades"
  /\ task' = Idle
  /\ UNCHANGED tableVars
  /\ fx' = IF \A i \in DOMAIN signedOk : signedOk[i]
             THEN SubmitFx(task.ev, task.inPlace)
             ELSE SignatureCaughtFx("signature failed")

\* The continuations of suspended handlers.
Resume ==
  /\ Quiet
  /\ task # Idle
  /\ UNCHANGED connVars
  /\ \/ \E res \in {Fail("signer unavailable")} \cup {Ok(a) : a \in SignerAddresses} :
          /\ ResumeOrderMatches(res)
          /\ last' = [kind |-> "resume", pc |-> "getAddress", ev |-> task.ev, address |-> res]
     \/ \E signedOk \in BOOLEAN :
          /\ ResumeSignOrder(signedOk)
          /\ last' = [kind |-> "resume", pc |-> "signOrder", ev |-> task.ev,
                      inPlace |-> task.inPlace, orderSigned |-> signedOk]
     \/ /\ task.pc = "signTrades"
        /\ \E signedOk \in [DOMAIN task.ev.payload.matches.items -> BOOLEAN] :
             /\ ResumeSignTrades(signedOk)
             /\ last' = [kind |-> "resume", pc |-> "signTrades", ev |-> task.ev,
                         inPlace |-> task.inPlace, tradesSigned |-> signedOk]

(***************************************************************************)
(* The orders channel                                                      *)
(***************************************************************************)

\* handleOrderMessage: the switch on event.type.
HandleOrderMessage(event) ==
  IF event.t = "absent"
    THEN /\ fx' = << [op |-> "throw", error |-> "TypeError"] >>
         /\ UNCHANGED <<tableVars, task>>
  ELSE CASE event.type = "ORDER_ADDED" -> HandleOrderAdded(event)
         [] event.type = "ORDER_CANCELLED" -> HandleOrderCancelled(event)
         [] event.type = "ORDER_SUCCESS" -> HandleOrderSuccess(event)
         [] event.type = "ORDER_PENDING" -> HandleOrderPending(event)
         [] event.type = "REQUEST_SIGNATURE" -> HandleRequestSignature(event)
         [] event.type = "ERROR" -> HandleOrderError(event)
         [] OTHER -> /\ fx' = << [op |-> "log"] >>
                     /\ UNCHANGED <<tableVars, task>>

(***************************************************************************)
(* The order-book, trades and OHLCV synchronizers                          *)
(***************************************************************************)

\* The empty array [] as a payload.
EmptyArray == List(<< >>)

\* `event.payload === []`: the right-hand side is an array allocated by the
\* comparison itself, so no payload is ever the same object.
IsThatEmptyArray(payload) == FALSE

\* Lines 239-240 (and their copies): whether the handler returns before parsing.
SkipsPayload(payload) == payload.t = "absent" \/ IsThatEmptyArray(payload)

Level(price, qty) == [price |-> price, qty |-> qty]

BookSnapshot == [t |-> "book", wellFormed |-> TRUE, bids |-> {Level(10, 5)}, asks |-> {}]
BookDelta == [t |-> "book", wellFormed |-> TRUE, bids |-> {Level(10, 0)}, asks |-> {Level(11, 2)}]
BookBad == [t |-> "book", wellFormed |-> FALSE, bids |-> {}, asks |-> {}]

ParsedLevels(levels) == {[price |-> l.price, amount |-> l.qty] : l \in levels}

\* parseOrderBookData; emptyOk is whether the parser accepts an empty array.
ParseOrderBookData(payload, emptyOk) ==
  IF payload.t = "book" /\ payload.wellFormed
    THEN Ok([bids |-> ParsedLevels(payload.bids), asks |-> ParsedLevels(payload.asks)])
  ELSE IF payload = EmptyArray /\ emptyOk THEN Ok([bids |-> {}, asks |-> {}])
  ELSE Fail("malformed order book")

\* The order book reducers: replace, and merge by price with zero removing the level.
MergeLevels(old, new) ==
  {l \in old : \A n \in new : n.price # l.price} \cup {n \in new : n.amount > 0}

InitOrderBook(book) == [bids |-> MergeLevels({}, book.bids), asks |-> MergeLevels({}, book.asks)]

UpdateOrderBook(old, book) ==
  [bids |-> MergeLevels(old.bids, book.bids), asks |-> MergeLevels(old.asks, book.asks)]

\* parseTrades: parseTrade on every element.
ParseTrades(payload, emptyOk) ==
  IF payload.t # "list" THEN Fail("malformed trades")
  ELSE IF payload.items = << >> THEN (IF emptyOk THEN Ok(<< >>) ELSE Fail("malformed trades"))
  ELSE IF \E i \in DOMAIN payload.items : ~ParseTrade(payload.items[i]).ok
    THEN Fail("malformed trade")
  ELSE Ok([i \in DOMAIN payload.items |-> ParseTrade(payload.items[i]).value])

InitTradesTable(rows) == UpsertAll(<< >>, rows)

Candle(time, close, wellFormed) ==
  [t |-> "candle", time |-> time, close |-> close, wellFormed |-> wellFormed]

\* parseOHLCV
ParseOHLCV(payload, emptyOk) ==
  IF payload.t # "list" THEN Fail("malformed candles")
  ELSE IF payload.items = << >> THEN (IF emptyOk THEN Ok(<< >>) ELSE Fail("malformed candles"))
  ELSE IF \E i \in DOMAIN payload.items : ~payload.items[i].wellFormed
    THEN Fail("malformed candle")
  ELSE Ok([i \in DOMAIN payload.items |->
             [hash |-> payload.items[i].time, close |-> payload.items[i].close]])

\* The candle reducers: replace, and merge by time.
InitOHLCV(rows) == UpsertAll(<< >>, rows)
UpdateOHLCV(series, rows) == UpsertAll(series, rows)

\* The common shape of handleOrderBookMessage, handleTradesMessage and
\* handleOHLCVMessage: parsed is the parser's result on the payload, initFx and
\* updateFx name the store action, and the caller applies the result.
\* Gives [parsed, fx, write]: write is "init", "update" or "none".
Synchronize(event, parsed, parserName, initName, updateName) ==
  IF event.t = "absent"
    THEN [fx |-> << Notify("danger", "TypeError"), [op |-> "log"] >>, write |-> "none"]
  ELSE IF event.type \notin {"INIT", "UPDATE"} THEN [fx |-> << >>, write |-> "none"]
  ELSE IF SkipsPayload(event.payload) THEN [fx |-> << >>, write |-> "none"]
  ELSE IF ~parsed.ok
    THEN [fx |-> << [op |-> parserName], Notify("danger", parsed.error), [op |-> "log"] >>,
          write |-> "none"]
  ELSE IF event.type = "INIT"
    THEN [fx |-> << [op |-> parserName], [op |-> initName, data |-> parsed.value] >>,
          write |-> "init"]
  ELSE [fx |-> << [op |-> parserName], [op |-> updateName, data |-> parsed.value] >>,
        write |-> "update"]

PayloadOf(event) == IF event.t = "absent" THEN Absent ELSE event.payload

HandleOrderBookMessage(event, emptyOk) ==
  LET parsed == ParseOrderBookData(PayloadOf(event), emptyOk)
      s == Synchronize(event, parsed, "parseOrderBookData", "initOrderBook", "updateOrderBook")
  IN
  /\ fx' = s.fx
  /\ orderBook' = CASE s.write = "init" -> InitOrderBook(parsed.value)
                    [] s.write = "update" -> UpdateOrderBook(orderBook, parsed.value)
                    [] OTHER -> orderBook
  /\ UNCHANGED <<orders, trades, ohlcv, task>>

HandleTradesMessage(event, emptyOk) ==
  LET parsed == ParseTrades(PayloadOf(event), emptyOk)
      s == Synchronize(event, parsed, "parseTrades", "initTradesTable", "updateTradesTable")
  IN
  /\ fx' = s.fx
  /\ trades' = CASE s.write = "init" -> InitTradesTable(parsed.value)
                 [] s.write = "update" -> UpdateTradesTable(trades, parsed.value)
                 [] OTHER -> trades
  /\ UNCHANGED <<orders, orderBook, ohlcv, task>>

HandleOHLCVMessage(event, emptyOk) ==
  LET parsed == ParseOHLCV(PayloadOf(event), emptyOk)
      s == Synchronize(event, parsed, "parseOHLCV", "initOHLCV", "updateOHLCV")
  IN
  /\ fx' = s.fx
  /\ ohlcv' = CASE s.write = "init" -> InitOHLCV(parsed.value)
                [] s.write = "update" -> UpdateOHLCV(ohlcv, parsed.value)
                [] OTHER -> ohlcv
  /\ UNCHANGED <<orders, trades, orderBook, task>>

(***************************************************************************)
(* The channel router                                                      *)
(***************************************************************************)

\* A router that matches the channel name without regard to case.
OnMessage_FoldsCase(msg) ==
  /\ Quiet
  /\ Connected
  /\ UNCHANGED connVars
  /\ last' = [kind |-> "message", msg |-> msg]
  /\ CASE msg.channel \in {"orders", "Orders"} -> HandleOrderMessage(msg.event)
       [] msg.channel = "orderbook" ->
            \E emptyOk \in BOOLEAN : HandleOrderBookMessage(msg.event, emptyOk)
       [] msg.channel = "trades" ->
            \E emptyOk \in BOOLEAN : HandleTradesMessage(msg.event, emptyOk)
       [] msg.channel = "ohlcv" ->
            \E emptyOk \in BOOLEAN : HandleOHLCVMessage(msg.event, emptyOk)
       [] OTHER -> /\ fx' = << [op |-> "log"] >>
                   /\ UNCHANGED <<tableVars, task>>

\* The callback registered with socket.onMessage.
OnMessage(msg) ==
  /\ Quiet
  /\ Connected
  /\ UNCHANGED connVars
  /\ last' = [kind |-> "message", msg |-> msg]
  /\ CASE msg.channel = "orders" -> HandleOrderMessage(msg.event)
       [] msg.channel = "orderbook" ->
            \E emptyOk \in BOOLEAN : HandleOrderBookMessage(msg.event, emptyOk)
       [] msg.channel = "trades" ->
            \E emptyOk \in BOOLEAN : HandleTradesMessage(msg.event, emptyOk)
       [] msg.channel = "ohlcv" ->
            \E emptyOk \in BOOLEAN : HandleOHLCVMessage(msg.event, emptyOk)
       [] OTHER -> /\ fx' = << [op |-> "log"] >>
                   /\ UNCHANGED <<tableVars, task>>

Message(channel, event) == [channel |-> channel, event |-> event]

Event(type, payload) == [t |-> "event", type |-> type, payload |-> payload]

Payload(order, remainingOrder, matches) ==
  [t |-> "payload", order |-> order, remainingOrder |-> remainingOrder, matches |-> matches]

MatchesPayload(matches) == [t |-> "payload", matches |-> matches]

\* The correlation hashes of REQUEST_SIGNATURE events.
Hashes == {"h1", "h2"}

\* The matches of REQUEST_SIGNATURE events.
SignatureMatches == {[order |-> O2, trade |-> T1], [order |-> O2, trade |-> Absent]}

OrderPayloads == {O1, O1x, O2, OBad, Absent}

MatchesPayloads ==
  {Absent, MatchesPayload(Absent)}
  \cup {MatchesPayload(List(s)) : s \in SeqsUpTo(Matches, MaxMatches)}

SignaturePayloads ==
  {Absent}
  \cup {Payload(o, r, m) :
          o \in {Absent, O1, OBad},
          r \in {Absent, O1x},
          m \in {Absent} \cup {List(s) : s \in SeqsUpTo(SignatureMatches, MaxMatches)}}

OrderEvents ==
  {Absent}
  \cup {Event(ty, p) : ty \in {"ORDER_ADDED", "ORDER_CANCELLED"}, p \in OrderPayloads}
  \cup {Event(ty, p) : ty \in {"ORDER_SUCCESS", "ORDER_PENDING"}, p \in MatchesPayloads}
  \cup {[t |-> "event", type |-> "REQUEST_SIGNATURE", payload |-> p, hash |-> h] :
          p \in SignaturePayloads, h \in Hashes}
  \cup {Event("ERROR", Absent), Event("ORDER_MATCHED", Absent)}

OrdersMessages ==
  {Message("orders", e) : e \in OrderEvents} \cup {Message("tokens", Event("INIT", Absent))}

SyncTypes == {"INIT", "UPDATE", "RESET"}

SyncMessages ==
  {Message("orderbook", Event(ty, p)) :
     ty \in SyncTypes, p \in {Absent, EmptyArray, BookSnapshot, BookDelta, BookBad}}
  \cup {Message("trades", Event(ty, p)) :
     ty \in SyncTypes,
     p \in {Absent, EmptyArray, List(<< T1 >>), List(<< T2, T3 >>), List(<< T1, TBad >>)}}
  \cup {Message("ohlcv", Event(ty, p)) :
     ty \in SyncTypes,
     p \in {Absent, EmptyArray, List(<< Candle(1, 100, TRUE) >>),
            List(<< Candle(1, 101, TRUE), Candle(2, 102, TRUE) >>),
            List(<< Candle(2, 103, FALSE) >>)}}
  \cup {Message(c, Absent) : c \in {"orderbook", "trades", "ohlcv"}}


InitConn ==
  /\ nconn = 0
  /\ conn = [g \in Conns |-> "none"]
  /\ origin = [g \in Conns |-> 0]
  /\ timers = {}
  /\ appHandle = 0
  /\ tornDown = {}
  /\ dangling = {}
  /\ storeOpen = FALSE

InitStore ==
  /\ orders = << >>
  /\ trades = << >>
  /\ orderBook = [bids |-> {}, asks |-> {}]
  /\ ohlcv = << >>
  /\ task = Idle
  /\ pending = {}
  /\ arrivals = << >>
  /\ effects = << >>

Init ==
  /\ InitConn
  /\ InitStore
  /\ last = [kind |-> "quiet"]
  /\ fx = << >>

NextConn ==
  \/ AppOpenConnection
  \/ Teardown
  \/ \E g \in Conns : LifecycleOpen(g)
  \/ \E g \in Conns : LifecycleError(g)
  \/ \E g \in Conns : LifecycleClose(g)
  \/ \E g \in Conns : TimerFire(g)

\* One connection and the orders channel.
NextOrders ==
  \/ AppOpenConnection
  \/ \E g \in Conns : LifecycleOpen(g)
  \/ \E msg \in OrdersMessages : OnMessage(msg) /\ UNCHANGED histVars
  \/ Resume /\ UNCHANGED histVars
  \/ Settle

SpecOrders == Init /\ [][NextOrders]_vars

\* One connection and the order-book, trades and ohlcv channels.
NextSync ==
  \/ AppOpenConnection
  \/ \E g \in Conns : LifecycleOpen(g)
  \/ \E msg \in SyncMessages : OnMessage(msg) /\ UNCHANGED histVars
  \/ Settle

SpecSync == Init /\ [][NextSync]_vars

\* The connection lifecycle alone.
SpecConn == Init /\ [][NextConn]_vars

\* Timers of the JavaScript event loop do fire.
SpecConnFair == SpecConn /\ \A g \in Conns : WF_vars(TimerFire(g))

(***************************************************************************)
(* Several handlers in flight.  An async handler returns to the event loop *)
(* at its await, the router is called again for the next message, and the  *)
(* continuations run in the order their promises settle.                   *)
(***************************************************************************)

\* Handlers that may be suspended at the same time.
MaxInflight == 2

\* Messages delivered in one behaviour, each at most once.
MaxDeliveries == 3

Range(s) == {s[i] : i \in DOMAIN s}

\* Whether an effect is a dispatch of a table action or the outbound send.
IsStoreOrSend(e) ==
  e.op \in {"updateOrdersTable", "updateTradesTable", "initTradesTable", "initOrderBook",
            "updateOrderBook", "initOHLCV", "updateOHLCV", "send"}

\* The table updates and sends among the effects f of a run of ev's handler;
\* sync tells whether the run is the one the router started (before any await).
Recorded(f, ev, sync) ==
  LET kept == SelectSeq(f, IsStoreOrSend) IN
  [i \in DOMAIN kept |-> [ev |-> ev, op |-> kept[i], sync |-> sync]]

MatchesEvent(type) ==
  Event(type, MatchesPayload(List(<< [order |-> O1x, trade |-> T1] >>)))

SignatureEvent(hash, payload) ==
  [t |-> "event", type |-> "REQUEST_SIGNATURE", payload |-> payload, hash |-> hash]

InflightMessages ==
  { Message("orders", Event("ORDER_ADDED", O1)),
    Message("orders", Event("ORDER_CANCELLED", O1)),
    Message("orders", MatchesEvent("ORDER_SUCCESS")),
    Message("orders", SignatureEvent("h1",
       Payload(O1, O1x, List(<< [order |-> O2, trade |-> T1] >>)))),
    Message("orders", SignatureEvent("h2",
       Payload(O2, Absent, List(<< [order |-> O2, trade |-> T2],
                                   [order |-> O2, trade |-> T3] >>)))) }

\* The router is called with a message: the handler runs to its first await.
Deliver(msg) ==
  /\ Len(arrivals) < MaxDeliveries
  /\ msg.event \notin Range(arrivals)
  /\ OnMessage(msg)
  /\ arrivals' = Append(arrivals, msg.event)
  /\ effects' = effects \o Recorded(fx', msg.event, TRUE)
  /\ pending' = pending

\* The promise a suspended handler awaits settles and the handler goes on.
Continue ==
  /\ Resume
  /\ effects' = effects \o Recorded(fx', task.ev, FALSE)
  /\ UNCHANGED <<pending, arrivals>>

\* Which suspended handler's promise settles next is up to the signer: t is
\* that handler (Idle: none of them before the next message).
Select(t) ==
  /\ Quiet
  /\ t \in pending \cup {Idle}
  /\ t # task
  /\ task' = t
  /\ pending' = (pending \cup {task}) \ {t, Idle}
  /\ Cardinality(pending') + (IF t = Idle THEN 0 ELSE 1) <= MaxInflight
  /\ UNCHANGED <<connVars, tableVars, arrivals, effects, last, fx>>

NextInflight ==
  \/ AppOpenConnection
  \/ \E g \in Conns : LifecycleOpen(g)
  \/ \E msg \in InflightMessages : Deliver(msg)
  \/ Continue
  \/ \E t \in pending \cup {Idle} : Select(t)
  \/ Settle

SpecInflight == Init /\ [][NextInflight]_vars

(***************************************************************************)
(* The lifecycle callback and the router together: messages of every       *)
(* channel, well-formed and not, on connections that open, fail, close and *)
(* are reopened by the timer.                                              *)
(***************************************************************************)

RouterMessages ==
  { Message("orders", Absent),
    Message("orders", Event("ORDER_ADDED", O1)),
    Message("orders", Event("ORDER_CANCELLED", OBad)),
    Message("orders", MatchesEvent("ORDER_PENDING")),
    Message("orders", Event("ORDER_SUCCESS", Absent)),
    Message("orders", SignatureEvent("h1",
       Payload(O1, O1x, List(<< [order |-> O2, trade |-> T1] >>)))),
    Message("orders", SignatureEvent("h2", Payload(Absent, Absent, Absent))),
    Message("orders", SignatureEvent("h2", Payload(O2, Absent, List(<< >>)))),
    Message("orders", SignatureEvent("h2", Absent)),
    Message("orders", Event("ERROR", Absent)),
    Message("orders", Event("ORDER_MATCHED", O1)),
    Message("orderbook", Event("INIT", BookSnapshot)),
    Message("orderbook", Event("UPDATE", BookBad)),
    Message("orderbook", Absent),
    Message("trades", Event("INIT", List(<< T1 >>))),
    Message("trades", Event("UPDATE", EmptyArray)),
    Message("ohlcv", Event("UPDATE", List(<< Candle(1, 100, TRUE) >>))),
    Message("ohlcv", Event("RESET", Absent)),
    Message("tokens", Event("INIT", List(<< T1 >>))),
    Message("Orders", Event("ORDER_ADDED", O2)),
    Message("markets", Absent) }

NextRouter ==
  \/ AppOpenConnection
  \/ \E g \in Conns : LifecycleOpen(g)
  \/ \E g \in Conns : LifecycleError(g)
  \/ \E g \in Conns : LifecycleClose(g)
  \/ \E g \in Conns : TimerFire(g)
  \/ \E msg \in RouterMessages : OnMessage(msg) /\ UNCHANGED histVars
  \/ Resume /\ UNCHANGED histVars
  \/ Settle

SpecRouter == Init /\ [][NextRouter]_vars

(***************************************************************************)
(* Claims about the connection lifecycle (SpecConn, SpecConnFair)          *)
(***************************************************************************)

\* C1: once the teardown handle has been invoked while a reconnect timer was
\* pending, that timer never runs openConnection: no step is the firing of a
\* timer that was pending at teardown.
C1_TeardownCancelsReconnect ==
  [][\A g \in dangling :
       ~(last' = [kind |-> "timer", src |-> g] /\ nconn' = nconn + 1)]_vars

\* C2: every 'close' lifecycle event emits the 'Connection lost' danger notice
\* and then schedules exactly one reconnect timer; the timer's firing runs the
\* whole of openConnection (createConnection, the store action, the lifecycle
\* callback, the message router) on a new connection; no close is followed by
\* two reconnects; and, timers being fair, every closed connection is
\* eventually followed by the openConnection run its timer makes.
C2_CloseSchedulesOneReconnect ==
  /\ [][\A g \in Conns :
          (conn[g] # "closed" /\ conn'[g] = "closed") =>
             /\ fx' = << [op |-> "notify", level |-> "danger", message |-> "Connection lost"],
                         [op |-> "setTimeout", delay |-> 5000] >>
             /\ g \notin timers
             /\ timers' = timers \cup {g}]_vars
  /\ [][\A g \in Conns :
          (g \in timers /\ g \notin timers') =>
             /\ nconn' = nconn + 1
             /\ conn[nconn'] = "none" /\ conn'[nconn'] = "connecting"
             /\ origin'[nconn'] = g
             /\ fx' = << [op |-> "socket.createConnection"],
                         [op |-> "dispatch", action |-> "createConnection"],
                         [op |-> "socket.openConnection"],
                         [op |-> "socket.onMessage"] >>]_vars
  /\ [](\A g \in Conns : Cardinality({h \in Conns : origin[h] = g}) <= 1)
  /\ \A g \in Conns : (conn[g] = "closed") ~> (\E h \in Conns : origin[h] = g)

\* C2 witness: a connection was closed and its timer has reopened a connection.
C2_Witness ==
  \E h \in Conns : origin[h] # 0 /\ conn[origin[h]] = "closed" /\ conn[h] = "open"

\* C3: at most one connection is active, and every connection but the newest
\* has had its teardown handle invoked.
C3_OneActiveConnection ==
  /\ Cardinality({g \in Conns : conn[g] \in {"connecting", "open"}}) <= 1
  /\ \A g \in Conns : g < nconn => g \in tornDown

\* C11: an 'error' lifecycle event only logs: the connection's state is as
\* before (closeConnection is not called), no timer is scheduled, no notice is
\* emitted, neither the store's flag nor a table changes; and a reconnect timer
\* is only ever scheduled by the step that handles a 'close' event.
C11_ErrorOnlyLogs ==
  /\ [][(last'.kind = "lifecycle" /\ last'.type = "error") =>
          /\ fx' = << [op |-> "log"] >>
          /\ UNCHANGED <<nconn, conn, origin, timers, appHandle, tornDown, storeOpen>>
          /\ UNCHANGED <<tableVars, task>>]_vars
  /\ [][(timers' \ timers # {}) =>
          (last'.kind = "lifecycle" /\ last'.type = "close")]_vars

\* C11 witness: an open connection has reported 'error', it is still open and no
\* timer is pending; the close that follows is what schedules one.
C11_Witness ==
  /\ last.kind = "lifecycle" /\ last.type = "error"
  /\ conn[last.conn] = "open"
  /\ timers = {}
  /\ fx = << [op |-> "log"] >>

\* C15: the step that handles an 'open' lifecycle event emits the 'Reconnected'
\* success notice exactly when a connection of the session was closed before,
\* and touches no table.
C15_ReconnectedOnlyAfterClose ==
  [][(last'.kind = "lifecycle" /\ last'.type = "open") =>
       /\ (\E i \in DOMAIN fx' : fx'[i] = Notify("success", "Reconnected"))
            <=> (\E h \in Conns : conn[h] = "closed")
       /\ UNCHANGED tableVars]_vars

\* C19: the 'close' event of a connection whose teardown handle has been invoked
\* schedules no reconnect timer, and no connection is ever opened by a timer
\* whose close came after the teardown of its connection.
C19_TeardownIsFinal ==
  [][\A g \in tornDown :
       /\ (conn[g] # "closed" /\ conn'[g] = "closed") => g \notin timers'
       /\ (g \in timers /\ g \notin dangling) => nconn' = nconn]_vars

(***************************************************************************)
(* Claims about the message handlers (SpecOrders, SpecSync)                *)
(***************************************************************************)

\* Reading a run's effects f.
OpsAt(f, op) == {i \in DOMAIN f : f[i].op = op}
NoticesAt(f, level) == {i \in DOMAIN f : f[i].op = "notify" /\ f[i].level = level}
Rows(table) == {table[i] : i \in DOMAIN table}
TableOps == {"updateOrdersTable", "updateTradesTable", "initTradesTable",
             "initOrderBook", "updateOrderBook", "initOHLCV", "updateOHLCV"}
SameAccount(a, b) == a.form # "invalid" /\ b.form # "invalid" /\ a.acct = b.acct

\* The last step was the end of a REQUEST_SIGNATURE handler in which signOrder
\* rejected or at least one signTrade rejected.
SigningFailed ==
  /\ last.kind = "resume"
  /\ \/ last.pc = "signOrder" /\ ~last.orderSigned
     \/ last.pc = "signTrades" /\ \E i \in DOMAIN last.tradesSigned : ~last.tradesSigned[i]

\* The event whose handler made the last step.
LastEvent == IF last.kind = "message" THEN last.msg.event ELSE last.ev

\* C4: when signOrder fails or one of the signTrade calls fails, the handler
\* sends nothing, emits a danger notice with the failure's message and no
\* 'Signing trade' notice, dispatches no table action, and the order table
\* still has the row that step 1 upserted for payload.order.
C4_SigningFailureSendsNothing ==
  SigningFailed =>
    /\ OpsAt(fx, "send") = {}
    /\ \E i \in NoticesAt(fx, "danger") : fx[i].message = "signature failed"
    /\ NoticesAt(fx, "success") = {}
    /\ \A i \in DOMAIN fx : fx[i].op \notin TableOps
    /\ last.ev.payload.order.t # "absent" =>
         \E r \in Rows(orders) : r.hash = ParseOrder(last.ev.payload.order).value.hash

\* C4 witness: of two signTrade calls one resolved and one rejected, in an event
\* that carried an order, whose row is in the table.
C4_Witness ==
  /\ SigningFailed
  /\ last.pc = "signTrades"
  /\ \E i, j \in DOMAIN last.tradesSigned : last.tradesSigned[i] /\ ~last.tradesSigned[j]
  /\ last.ev.payload.order = O1
  /\ ParseOrder(O1).value \in Rows(orders)

\* C5: a REQUEST_SIGNATURE handler that sends, sends once, after the 'Signing
\* trade' notice, the event's hash and order, the remainingOrder as signOrder
\* signed it and every match's trade as signTrade signed it.
C5_SubmitsSignedStructures ==
  \A i \in OpsAt(fx, "send") :
    /\ OpsAt(fx, "send") = {i}
    /\ i > 1 /\ fx[i - 1] = [op |-> "notify", level |-> "success", message |-> "Signing trade"]
    /\ fx[i].hash = LastEvent.hash
    /\ fx[i].order = LastEvent.payload.order
    /\ fx[i].remainingOrder.t # "absent" =>
         fx[i].remainingOrder = SignOrder(WithNonce(Signable(LastEvent.payload.remainingOrder)))
    /\ fx[i].matches.t # "absent" =>
         \A k \in DOMAIN fx[i].matches.items :
           fx[i].matches.items[k].trade =
             SignTrade(WithNonce(Signable(LastEvent.payload.matches.items[k].trade)))

\* Whether the handler's run on the event hits a malformed payload before its
\* first await: a parser throws, or a field the handler reads is missing.
MalformedOrdersEvent(ev) ==
  /\ ev.t # "absent"
  /\ \/ ev.type \in {"ORDER_ADDED", "ORDER_CANCELLED"} /\ ~ParseOrder(ev.payload).ok
     \/ /\ ev.type = "REQUEST_SIGNATURE"
        /\ \/ ev.payload.t = "absent"
           \/ /\ ev.payload.order.t # "absent" /\ ~ParseOrder(ev.payload.order).ok
           \/ /\ ev.payload.remainingOrder.t = "absent"
              /\ ev.payload.matches.t # "absent"
              /\ \E k \in DOMAIN ev.payload.matches.items :
                   ev.payload.matches.items[k].trade.t = "absent"

MalformedMatchesEvent(ev, address) ==
  \/ ev.payload.t = "absent"
  \/ ev.payload.matches.t = "absent"
  \/ ~Batches(ev.payload.matches.items, address).ok

MalformedSyncEvent(ev) ==
  /\ ev.t # "absent"
  /\ ev.type \in {"INIT", "UPDATE"}
  /\ ev.payload \in {BookBad, List(<< T1, TBad >>), List(<< Candle(2, 103, FALSE) >>)}

\* C6: a step that handles an event with a malformed payload leaves the order,
\* trade, order-book and candle tables as they were and emits a danger notice.
C6_MalformedLeavesTables ==
  [][( \/ /\ last'.kind = "message"
          /\ \/ last'.msg.channel = "orders" /\ MalformedOrdersEvent(last'.msg.event)
             \/ /\ last'.msg.channel \in {"orderbook", "trades", "ohlcv"}
                /\ MalformedSyncEvent(last'.msg.event)
       \/ /\ last'.kind = "resume" /\ last'.pc = "getAddress" /\ last'.address.ok
          /\ MalformedMatchesEvent(last'.ev, last'.address.value) )
     => /\ UNCHANGED tableVars
        /\ NoticesAt(fx', "danger") # {}]_vars

\* C7: the end of an ORDER_SUCCESS / ORDER_PENDING handler dispatches at most
\* one updateOrdersTable and at most one updateTradesTable and no other table
\* action; neither batch is empty; every row of the order batch is the parsed
\* order of a match of the event whose owner is the signer's account, and every
\* row of the trade batch the parsed trade of a match whose maker or taker is.
C7_BatchedUpserts ==
  (last.kind = "resume" /\ last.pc = "getAddress") =>
    /\ Cardinality(OpsAt(fx, "updateOrdersTable")) <= 1
    /\ Cardinality(OpsAt(fx, "updateTradesTable")) <= 1
    /\ \A i \in DOMAIN fx : fx[i].op \in TableOps =>
         /\ fx[i].op \in {"updateOrdersTable", "updateTradesTable"}
         /\ fx[i].batch # << >>
    /\ \A i \in OpsAt(fx, "updateOrdersTable") : \A r \in Rows(fx[i].batch) :
         \E k \in DOMAIN last.ev.payload.matches.items :
           LET o == last.ev.payload.matches.items[k].order IN
           /\ ParseOrder(o).ok /\ ParseOrder(o).value = r
           /\ SameAccount(o.userAddress, last.address.value)
    /\ \A i \in OpsAt(fx, "updateTradesTable") : \A r \in Rows(fx[i].batch) :
         \E k \in DOMAIN last.ev.payload.matches.items :
           LET x == last.ev.payload.matches.items[k].trade IN
           /\ ParseTrade(x).ok /\ ParseTrade(x).value = r
           /\ \/ SameAccount(x.maker, last.address.value)
              \/ SameAccount(x.taker, last.address.value)

\* C7 witness: an event of two matches ended with one order upsert and one trade
\* upsert, each of two rows.
C7_Witness ==
  /\ last.kind = "resume" /\ last.pc = "getAddress"
  /\ OpsAt(fx, "updateOrdersTable") # {}
  /\ Len(last.ev.payload.matches.items) = 2
  /\ \E i \in OpsAt(fx, "updateOrdersTable") : Len(fx[i].batch) = 2
  /\ \E i \in OpsAt(fx, "updateTradesTable") : Len(fx[i].batch) = 2

\* C8: an ORDER_ADDED event whose parsed order the table already holds (it was
\* delivered before, whatever was delivered for other orders since) leaves the
\* order table as it is.
C8_OrderAddedIdempotent ==
  [][( /\ last'.kind = "message"
       /\ last'.msg.channel = "orders"
       /\ last'.msg.event.t # "absent"
       /\ last'.msg.event.type = "ORDER_ADDED"
       /\ ParseOrder(last'.msg.event.payload).ok
       /\ ParseOrder(last'.msg.event.payload).value \in Rows(orders) )
     => orders' = orders]_vars

\* C8 witness: ORDER_ADDED for order 1 was just handled on a table that held its
\* row before the row of order 2 was added.
C8_Witness ==
  /\ last = [kind |-> "message", msg |-> Message("orders", Event("ORDER_ADDED", O1))]
  /\ orders = << ParseOrder(O1).value, ParseOrder(O2).value >>

\* C9: on a first connection with empty tables, a valid ORDER_ADDED message
\* leaves the order table holding exactly the parsed order, emits exactly one
\* success notice, 'Order added', and no danger notice, sends nothing and leaves
\* the trade, order-book and candle tables alone.
C9_OrderAddedEndToEnd ==
  [][( /\ nconn = 1 /\ conn[1] = "open"
       /\ orders = << >>
       /\ last'.kind = "message"
       /\ last'.msg.channel = "orders"
       /\ last'.msg.event.t # "absent"
       /\ last'.msg.event.type = "ORDER_ADDED"
       /\ ParseOrder(last'.msg.event.payload).ok )
     => /\ orders' = << ParseOrder(last'.msg.event.payload).value >>
        /\ \E i \in DOMAIN fx' :
             /\ NoticesAt(fx', "success") = {i}
             /\ fx'[i].message = "Order added"
        /\ NoticesAt(fx', "danger") = {}
        /\ OpsAt(fx', "send") = {}
        /\ UNCHANGED <<trades, orderBook, ohlcv, task>>]_vars

\* C9 witness: the order table holds exactly the order of the ORDER_ADDED message
\* just handled.
C9_Witness ==
  /\ nconn = 1 /\ conn[1] = "open"
  /\ last = [kind |-> "message", msg |-> Message("orders", Event("ORDER_ADDED", O2))]
  /\ orders = << ParseOrder(O2).value >>
  /\ trades = << >>

\* C10: an INIT or UPDATE event of the order-book, trades or ohlcv channel whose
\* payload is absent or an empty array runs no parser, dispatches nothing and
\* emits no notice.
C10_EmptyPayloadIsNoOp ==
  ( /\ last.kind = "message"
    /\ last.msg.channel \in {"orderbook", "trades", "ohlcv"}
    /\ last.msg.event.t # "absent"
    /\ last.msg.event.type \in {"INIT", "UPDATE"}
    /\ last.msg.event.payload \in {Absent, EmptyArray} )
  => fx = << >>

(***************************************************************************)
(* Claims about handlers in flight together (SpecInflight)                 *)
(***************************************************************************)

\* The place of an event in the delivery order.
Pos(ev) == CHOOSE i \in DOMAIN arrivals : arrivals[i] = ev

\* The effects (table updates, sends) that were applied after an effect of a
\* message delivered later than their own.
Overtaken ==
  {j \in DOMAIN effects :
     \E i \in DOMAIN effects : i < j /\ Pos(effects[i].ev) > Pos(effects[j].ev)}

\* C12 (as stated): table updates and sends are applied in delivery order: no
\* effect of a message is applied after an effect of a message delivered later.
C12_EffectsInDeliveryOrder == Overtaken = {}

\* C12 (amended): handlers start in delivery order and run to their first await
\* before the next starts, so an effect made before an await is never applied
\* after an effect of a later message; the only effects that are, were made
\* after an await: the batched upserts of ORDER_SUCCESS / ORDER_PENDING and the
\* send of REQUEST_SIGNATURE.
C12_OnlyAwaitedEffectsOvertaken ==
  \A j \in Overtaken :
    /\ ~effects[j].sync
    /\ \/ /\ effects[j].ev.type \in {"ORDER_SUCCESS", "ORDER_PENDING"}
          /\ effects[j].op.op \in {"updateOrdersTable", "updateTradesTable"}
       \/ /\ effects[j].ev.type = "REQUEST_SIGNATURE"
          /\ effects[j].op.op = "send"

\* C12 witness: ORDER_SUCCESS for order 1 was delivered before ORDER_ADDED for
\* order 1, its upsert was applied after that of ORDER_ADDED, and the table holds
\* the row of the earlier message.
C12_Witness ==
  /\ \E j \in Overtaken : \E i \in 1..(j - 1) :
       /\ effects[j].ev.type = "ORDER_SUCCESS" /\ effects[j].op.op = "updateOrdersTable"
       /\ effects[i].ev = Event("ORDER_ADDED", O1)
       /\ Pos(effects[i].ev) > Pos(effects[j].ev)
  /\ ParseOrder(O1x).value \in Rows(orders)

(***************************************************************************)
(* Claims about the router and the lifecycle together (SpecRouter)         *)
(***************************************************************************)

\* C13: no run of the message callback or of a handler's continuation raises,
\* whatever the message (malformed payload, signer failure, unknown channel or
\* event type, missing event), and none changes the connection's state or
\* schedules a reconnect.
C13_NoMessageIsFatal ==
  [][(last'.kind \in {"message", "resume"}) =>
       /\ OpsAt(fx', "throw") = {}
       /\ UNCHANGED connVars]_vars

\* The event whose handler made the step described by l.
EventOf(l) == IF l.kind = "message" THEN l.msg.event ELSE l.ev

\* Whether the payload of a REQUEST_SIGNATURE event has something to sign.
HasRemainingOrder(ev) == ev.payload.remainingOrder.t # "absent"
HasTrades(ev) == ev.payload.matches.t # "absent" /\ ev.payload.matches.items # << >>

\* What C14 says of a step that sends, apart from signing: it is a step of the
\* handler of a REQUEST_SIGNATURE event of the orders channel, it is that
\* handler's last step, and it sends once, with the event's hash.
SendsForOneSignatureRequest ==
  \A i \in OpsAt(fx', "send") :
    /\ last'.kind \in {"message", "resume"}
    /\ last'.kind = "message" => last'.msg.channel = "orders"
    /\ EventOf(last').t # "absent"
    /\ EventOf(last').type = "REQUEST_SIGNATURE"
    /\ OpsAt(fx', "send") = {i}
    /\ fx'[i].hash = EventOf(last').hash
    /\ task' = (IF last'.kind = "resume" THEN Idle ELSE task)

\* Whether the step described by l is the successful end of the last signing
\* call of its event.
SigningCompleted(l) ==
  /\ l.kind = "resume"
  /\ \/ l.pc = "signOrder" /\ l.orderSigned /\ ~HasTrades(l.ev)
     \/ l.pc = "signTrades" /\ \A k \in DOMAIN l.tradesSigned : l.tradesSigned[k]

\* C14 (as stated): every send belongs to one REQUEST_SIGNATURE event for which
\* signing was performed and has completed successfully; one send per event; no
\* other event, channel or lifecycle event sends.
C14_SendsOnlyAfterSigning ==
  [][SendsForOneSignatureRequest /\ (OpsAt(fx', "send") # {} => SigningCompleted(last'))]_vars

\* C14 (amended): every send belongs to one REQUEST_SIGNATURE event and comes
\* after the successful end of every signing call the payload calls for, which
\* are none when it has neither a remainingOrder nor a trade to sign: then the
\* send is made in the run the router started.
C14_SendsAfterApplicableSigning ==
  [][/\ SendsForOneSignatureRequest
     /\ OpsAt(fx', "send") # {} =>
          \/ SigningCompleted(last')
          \/ /\ last'.kind = "message"
             /\ ~HasRemainingOrder(EventOf(last')) /\ ~HasTrades(EventOf(last'))]_vars

\* C14 witness: the send of an event with a remainingOrder and a trade, made when
\* the signTrade call resolved.
C14_Witness ==
  /\ OpsAt(fx, "send") # {}
  /\ SigningCompleted(last)
  /\ last.pc = "signTrades"
  /\ HasRemainingOrder(last.ev)

\* The effects only handleOrderMessage and its handlers make, and likewise for
\* the three synchronizers.
OrdersOnlyOps == {"parseOrder", "signer.getAddress", "getRandomNonce", "signOrder",
                  "tradeNonce", "signTrade", "send", "throw", "updateOrdersTable"}
OrderBookOnlyOps == {"parseOrderBookData", "initOrderBook", "updateOrderBook"}
TradesOnlyOps == {"parseTrades", "initTradesTable"}
OHLCVOnlyOps == {"parseOHLCV", "initOHLCV", "updateOHLCV"}

OpsOf(f) == {f[i].op : i \in DOMAIN f}

\* C18: a message of channel 'orders', 'orderbook', 'trades' or 'ohlcv' is
\* handled by that channel's handler and no other (only its effects are made,
\* only its tables change), on the event as delivered (what is dispatched is
\* what the parser gives for the event's payload); a message of any other
\* channel is logged and nothing else: no throw, no notice, no table change, no
\* send, no handler started.
C18_RouterDispatchesByChannel ==
  [][(last'.kind = "message") =>
      LET msg == last'.msg
          ops == OpsOf(fx')
          foreign(own) ==
            ops \cap ((OrdersOnlyOps \cup OrderBookOnlyOps \cup TradesOnlyOps \cup OHLCVOnlyOps)
                        \ own) = {}
      IN
      CASE msg.channel = "orders" ->
             /\ foreign(OrdersOnlyOps)
             /\ UNCHANGED <<trades, orderBook, ohlcv>>
             /\ \A i \in OpsAt(fx', "updateOrdersTable") :
                  fx'[i].batch = << ParseOrder(IF msg.event.type = "REQUEST_SIGNATURE"
                                                THEN msg.event.payload.order
                                                ELSE msg.event.payload).value >>
        [] msg.channel = "orderbook" ->
             /\ foreign(OrderBookOnlyOps)
             /\ UNCHANGED <<orders, trades, ohlcv, task>>
             /\ \A i \in DOMAIN fx' : fx'[i].op \in {"initOrderBook", "updateOrderBook"} =>
                  fx'[i].data = ParseOrderBookData(msg.event.payload, TRUE).value
        [] msg.channel = "trades" ->
             /\ foreign(TradesOnlyOps \cup {"updateTradesTable"})
             /\ UNCHANGED <<orders, orderBook, ohlcv, task>>
             /\ \A i \in DOMAIN fx' : fx'[i].op \in {"initTradesTable", "updateTradesTable"} =>
                  fx'[i].data = ParseTrades(msg.event.payload, TRUE).value
        [] msg.channel = "ohlcv" ->
             /\ foreign(OHLCVOnlyOps)
             /\ UNCHANGED <<orders, trades, orderBook, task>>
             /\ \A i \in DOMAIN fx' : fx'[i].op \in {"initOHLCV", "updateOHLCV"} =>
                  fx'[i].data = ParseOHLCV(msg.event.payload, TRUE).value
        [] OTHER ->
             /\ fx' = << [op |-> "log"] >>
             /\ UNCHANGED <<tableVars, task, connVars>>]_vars

\* C18 witness: a message whose channel differs from 'orders' only in case, with
\* a valid ORDER_ADDED event, was dropped: logged, and the order table is empty.
C18_Witness ==
  /\ last = [kind |-> "message", msg |-> Message("Orders", Event("ORDER_ADDED", O2))]
  /\ fx = << [op |-> "log"] >>
  /\ orders = << >>

(***************************************************************************)
(* Further claims about the message handlers (SpecOrders)                  *)
(***************************************************************************)

\* C16: in the handler of a REQUEST_SIGNATURE event with a remainingOrder, the
\* run that calls signOrder assigns no trade nonce, calls no signTrade and sends
\* nothing; nor does the continuation of a signOrder that failed, which ends the
\* handler; trade nonces and signTrade calls are made only once signOrder has
\* resolved (or was not called for); and an event with trades to sign is sent
\* only by the continuation of the join, all signTrade calls having resolved.
C16_SignOrderBeforeSignTrades ==
  LET tradeOps == OpsAt(fx, "tradeNonce") \cup OpsAt(fx, "signTrade") IN
  /\ OpsAt(fx, "signOrder") # {} => tradeOps = {} /\ OpsAt(fx, "send") = {}
  /\ (last.kind = "resume" /\ last.pc = "signOrder" /\ ~last.orderSigned) =>
       tradeOps = {} /\ OpsAt(fx, "send") = {} /\ task = Idle
  /\ tradeOps # {} =>
       \/ last.kind = "resume" /\ last.pc = "signOrder" /\ last.orderSigned
       \/ last.kind = "message" /\ ~HasRemainingOrder(last.msg.event)
  /\ (OpsAt(fx, "send") # {} /\ HasTrades(LastEvent)) =>
       /\ last.kind = "resume" /\ last.pc = "signTrades"
       /\ \A k \in DOMAIN last.tradesSigned : last.tradesSigned[k]
       /\ tradeOps = {}

\* C16 witness: signOrder failed in an event that has two trades to sign.
C16_Witness ==
  /\ last.kind = "resume" /\ last.pc = "signOrder" /\ ~last.orderSigned
  /\ HasTrades(last.ev) /\ Len(last.ev.payload.matches.items) = 2
  /\ OpsAt(fx, "signTrade") = {}

\* C17: when an ORDER_SUCCESS / ORDER_PENDING handler ends with its success
\* notice, the order of every match whose owner is the signer's account is in
\* the order batch, and the trade of every match whose maker or taker is the
\* signer's account is in the trade batch, whatever the letter-casing of the
\* wire addresses and of the address signer.getAddress() resolved to.
C17_NoFalseNegatives ==
  ( /\ last.kind = "resume" /\ last.pc = "getAddress" /\ last.address.ok
    /\ NoticesAt(fx, "success") # {} )
  => \A k \in DOMAIN last.ev.payload.matches.items :
       LET o == last.ev.payload.matches.items[k].order
           x == last.ev.payload.matches.items[k].trade
       IN
       /\ SameAccount(o.userAddress, last.address.value) =>
            \E i \in OpsAt(fx, "updateOrdersTable") : ParseOrder(o).value \in Rows(fx[i].batch)
       /\ (SameAccount(x.maker, last.address.value) \/ SameAccount(x.taker, last.address.value)) =>
            \E i \in OpsAt(fx, "updateTradesTable") : ParseTrade(x).value \in Rows(fx[i].batch)

(***************************************************************************)
(* Further claims about handlers in flight together (SpecInflight)         *)
(***************************************************************************)

\* The sends made so far.
Sends == {i \in DOMAIN effects : effects[i].op.op = "send"}

\* The REQUEST_SIGNATURE event delivered with the hash a send carries.
Originating(m) ==
  CHOOSE e \in Range(arrivals) : e.type = "REQUEST_SIGNATURE" /\ e.hash = m.hash

\* Whether the structure m that was sent is the wire structure raw (or both are missing).
SentOf(m, raw) == IF raw.t = "absent" THEN m.t = "absent" ELSE m.t # "absent" /\ m.raw = raw

\* C20: with REQUEST_SIGNATURE handlers in flight together, every send carries
\* the hash of a delivered event together with that event's order,
\* remainingOrder and matches; no two sends carry the same hash; and a handler
\* whose signing calls all resolved sends, whatever became of the others.
C20_SendsCarryOwnEvent ==
  /\ \A i \in Sends :
       LET m == effects[i].op
           e == Originating(m)
       IN
       /\ \E d \in Range(arrivals) : d.type = "REQUEST_SIGNATURE" /\ d.hash = m.hash
       /\ m.order = e.payload.order
       /\ SentOf(m.remainingOrder, e.payload.remainingOrder)
       /\ IF e.payload.matches.t = "absent" THEN m.matches.t = "absent"
          ELSE /\ m.matches.t # "absent"
               /\ DOMAIN m.matches.items = DOMAIN e.payload.matches.items
               /\ \A k \in DOMAIN m.matches.items :
                    /\ m.matches.items[k].order = e.payload.matches.items[k].order
                    /\ SentOf(m.matches.items[k].trade, e.payload.matches.items[k].trade)
       /\ \A j \in Sends : effects[j].op.hash = m.hash => j = i
  /\ (last.kind = "resume" /\ SigningCompleted(last)) =>
       \E i \in OpsAt(fx, "send") : fx[i].hash = last.ev.hash

\* C20 witness: of two REQUEST_SIGNATURE events, the one delivered first was
\* still in flight when the second was sent, and its own signing has now failed:
\* the send of the second stands and nothing was sent for the first.
C20_Witness ==
  /\ SigningFailed
  /\ last.ev.hash = "h1"
  /\ \E i \in Sends : effects[i].op.hash = "h2" /\ Pos(effects[i].ev) > Pos(last.ev)
  /\ \A i \in Sends : effects[i].op.hash # "h1"

====
